---------------------------- MODULE Spec2Model ----------------------------
(***************************************************************************)
(* safe-ascii: the mapping table of the safe_ascii crate                   *)
(* (safe_ascii/src/lib.rs) and the command line program that streams its   *)
(* sources through the table under a truncation budget (src/main.rs).      *)
(*                                                                         *)
(* A Rust String is modelled as the sequence of its chars (code points);   *)
(* what reaches standard output is the sequence of the bytes of its UTF-8  *)
(* encoding (String::as_bytes).                                            *)
(***************************************************************************)
EXTENDS Integers, Sequences, FiniteSets, TLC

(***************************************************************************)
(* Bounds of the model.                                                    *)
(***************************************************************************)
\* the sources of one run hold at most MaxLen bytes altogether
MaxLen == 3
\* at most MaxFiles file arguments
MaxFiles == 2
\* a limited truncate argument is at most MaxBudget
MaxBudget == 3
\* at most MaxExclude tokens in the exclusion list
MaxExclude == 1

\* the byte values the sources are filled with: a printable byte and a
\* byte above 0x7F
ByteSet == {48, 255}

\* the tokens the exclusion list is filled with, as their chars:
\* "", "48", "255", "x"
TokenSet == { <<>>, <<52, 56>>, <<50, 53, 53>>, <<120>> }

Modes == {"mnemonic", "escape", "suppress"}

\* io::ErrorKind, as far as the program tells the kinds apart
ErrorKinds == {"BrokenPipe", "Other"}

U8 == 0..255

(***************************************************************************)
(* Helpers on sequences.                                                   *)
(***************************************************************************)
Min(a, b) == IF a < b THEN a ELSE b

Take(s, n) == SubSeq(s, 1, n)

Drop(s, n) == SubSeq(s, n + 1, Len(s))

RECURSIVE Flatten(_)
\* the concatenation of a sequence of sequences (slice::join(""))
Flatten(ss) == IF ss = <<>> THEN <<>> ELSE Head(ss) \o Flatten(Tail(ss))

RECURSIVE SeqsUpTo(_, _)
\* the sequences over S of length at most n
SeqsUpTo(S, n) ==
    IF n = 0 THEN { <<>> }
    ELSE LET shorter == SeqsUpTo(S, n - 1)
         IN  shorter \cup { Append(s, x) : s \in {t \in shorter : Len(t) = n - 1}, x \in S }

(***************************************************************************)
(* safe_ascii/src/lib.rs: the mode functions.                              *)
(***************************************************************************)
\* `c as char` followed by to_string(): the one-char String of code point c
CharToString(c) == << c >>

\* the arms 0..=32 of map_to_mnemonic, indexed from 1
MnemonicNames ==
   << <<40, 78, 85, 76, 41>>,  \* 0 => "(NUL)"
      <<40, 83, 79, 72, 41>>,  \* 1 => "(SOH)"
      <<40, 83, 84, 88, 41>>,  \* 2 => "(STX)"
      <<40, 69, 84, 88, 41>>,  \* 3 => "(ETX)"
      <<40, 69, 79, 84, 41>>,  \* 4 => "(EOT)"
      <<40, 69, 78, 81, 41>>,  \* 5 => "(ENQ)"
      <<40, 65, 67, 75, 41>>,  \* 6 => "(ACK)"
      <<40, 66, 69, 76, 41>>,  \* 7 => "(BEL)"
      <<40, 66, 83, 41>>,      \* 8 => "(BS)"
      <<40, 72, 84, 41>>,      \* 9 => "(HT)"
      <<40, 76, 70, 41>>,      \* 10 => "(LF)"
      <<40, 86, 84, 41>>,      \* 11 => "(VT)"
      <<40, 70, 70, 41>>,      \* 12 => "(FF)"
      <<40, 67, 82, 41>>,      \* 13 => "(CR)"
      <<40, 83, 79, 41>>,      \* 14 => "(SO)"
      <<40, 83, 73, 41>>,      \* 15 => "(SI)"
      <<40, 68, 76, 69, 41>>,  \* 16 => "(DLE)"
      <<40, 68, 67, 49, 41>>,  \* 17 => "(DC1)"
      <<40, 68, 67, 50, 41>>,  \* 18 => "(DC2)"
      <<40, 68, 67, 51, 41>>,  \* 19 => "(DC3)"
      <<40, 68, 67, 52, 41>>,  \* 20 => "(DC4)"
      <<40, 78, 65, 75, 41>>,  \* 21 => "(NAK)"
      <<40, 83, 89, 78, 41>>,  \* 22 => "(SYN)"
      <<40, 69, 84, 66, 41>>,  \* 23 => "(ETB)"
      <<40, 67, 65, 78, 41>>,  \* 24 => "(CAN)"
      <<40, 69, 77, 41>>,      \* 25 => "(EM)"
      <<40, 83, 85, 66, 41>>,  \* 26 => "(SUB)"
      <<40, 69, 83, 67, 41>>,  \* 27 => "(ESC)"
      <<40, 70, 83, 41>>,      \* 28 => "(FS)"
      <<40, 71, 83, 41>>,      \* 29 => "(GS)"
      <<40, 82, 83, 41>>,      \* 30 => "(RS)"
      <<40, 85, 83, 41>>,      \* 31 => "(US)"
      <<40, 83, 80, 41>> >>    \* 32 => "(SP)"

\* map_to_mnemonic with the printable arm ending one byte early
map_to_mnemonic_short(c) ==
    CASE c \in 0..32    -> MnemonicNames[c + 1]
      [] c \in 33..125  -> CharToString(c)
      [] c \in 126..127 -> <<40, 68, 69, 76, 41>>
      [] c \in 128..255 -> <<40, 62, 55, 70, 41>>

map_to_mnemonic(c) ==
    CASE c \in 0..32    -> MnemonicNames[c + 1]
      [] c \in 33..126  -> CharToString(c)                 \* Printable
      [] c = 127        -> <<40, 68, 69, 76, 41>>          \* "(DEL)"
      [] c \in 128..255 -> <<40, 62, 55, 70, 41>>          \* "(>7F)"

\* one digit of {:x}
HexDigit(d) == IF d < 10 THEN 48 + d ELSE 87 + d

\* format!("\\x{c:02x}")
map_to_escape(c) == << 92, 120, HexDigit(c \div 16), HexDigit(c % 16) >>

map_suppress(c) ==
    IF c \in 33..126 THEN CharToString(c)                  \* Printable
    ELSE <<>>

\* main: the map_fn chosen for args.mode
MapFn(mode, c) ==
    CASE mode = "mnemonic" -> map_to_mnemonic(c)
      [] mode = "escape"   -> map_to_escape(c)
      [] mode = "suppress" -> map_suppress(c)

(***************************************************************************)
(* safe_ascii/src/lib.rs: AsciiMapping.                                    *)
(***************************************************************************)
\* AsciiMapping::new with the two branches exchanged
NewEntry_swapped(mode, exclusion_list, i) ==
    IF exclusion_list[i] THEN MapFn(mode, i) ELSE CharToString(i)

\* AsciiMapping::new: the entry of byte i
NewEntry(mode, exclusion_list, i) ==
    IF exclusion_list[i] THEN CharToString(i) ELSE MapFn(mode, i)

\* AsciiMapping::new: the table of all 256 entries
AsciiMappingNew(mode, exclusion_list) ==
    [ i \in U8 |-> NewEntry(mode, exclusion_list, i) ]

\* AsciiMapping::convert_u8_slice: the entries of input[..size], joined
convert_u8_slice(table, input, size) ==
    Flatten([ j \in 1..size |-> table[input[j]] ])

\* the UTF-8 encoding of one char below U+0800
Utf8(cp) ==
    IF cp < 128 THEN << cp >>
    ELSE << 192 + (cp \div 64), 128 + (cp % 64) >>

\* String::as_bytes
as_bytes(str) == Flatten([ j \in 1..Len(str) |-> Utf8(str[j]) ])

(***************************************************************************)
(* src/main.rs: parse_exclude.                                             *)
(***************************************************************************)
IsDigit(ch) == ch \in 48..57

RECURSIVE DecimalValue(_)
\* the value of a string of decimal digits
DecimalValue(ds) ==
    IF ds = <<>> THEN 0
    ELSE 10 * DecimalValue(Take(ds, Len(ds) - 1)) + (ds[Len(ds)] - 48)

\* the result of a parse that fails
ParseErr == -1

\* str::parse::<u8>: an optional '+', then digits, and a value that fits a
\* u8; ParseErr for every other string
ParseU8(tok) ==
    LET ds == IF tok # <<>> /\ Head(tok) = 43 THEN Tail(tok) ELSE tok
    IN  IF ds = <<>> \/ (\E j \in 1..Len(ds) : ~IsDigit(ds[j])) THEN ParseErr
        ELSE IF DecimalValue(ds) > 255 THEN ParseErr
        ELSE DecimalValue(ds)

\* parse_exclude taking every list that starts with the empty token for the
\* empty set (the test of line 192 without `exclusions.len() == 1`)
FirstBadToken_anylen(exclusions) ==
    IF exclusions[1] = <<>> THEN 0
    ELSE LET bad == { j \in 1..Len(exclusions) : ParseU8(exclusions[j]) = ParseErr }
         IN  IF bad = {} THEN 0 ELSE CHOOSE j \in bad : \A k \in bad : j <= k

\* parse_exclude: the index of the first token that does not parse, 0 if all
\* parse or the list is the single empty token
FirstBadToken(exclusions) ==
    IF Len(exclusions) = 1 /\ exclusions[1] = <<>> THEN 0
    ELSE LET bad == { j \in 1..Len(exclusions) : ParseU8(exclusions[j]) = ParseErr }
         IN  IF bad = {} THEN 0 ELSE CHOOSE j \in bad : \A k \in bad : j <= k

\* parse_exclude: the [bool; 256] of an exclusion list of which every token parses
ExcludeArray(exclusions) ==
    IF Len(exclusions) = 1 /\ exclusions[1] = <<>> THEN [ b \in U8 |-> FALSE ]
    ELSE [ b \in U8 |-> \E j \in 1..Len(exclusions) : ParseU8(exclusions[j]) = b ]

(***************************************************************************)
(* src/main.rs: process, one chunk of n bytes read into buf.               *)
(***************************************************************************)
\* the third branch converting the whole chunk instead of *truncate bytes
ConvertSize_whole(t, n) == n

\* the size handed to convert_u8_slice by the three branches of the loop
ConvertSize(t, n) ==
    IF t < 0 THEN n                  \* No truncate limit
    ELSE IF t >= n THEN n            \* Won't reach limit in this block
    ELSE t                           \* Will reach limit within this block

\* the second branch without `*truncate -= n`
TruncateAfter_kept(t, n) ==
    IF t < 0 THEN t
    ELSE IF t >= n THEN t
    ELSE 0

\* the loop without the `*truncate < 0` branch
TruncateAfter_signed(t, n) ==
    IF t >= n THEN t - n
    ELSE 0

\* *truncate after the branch
TruncateAfter(t, n) ==
    IF t < 0 THEN t
    ELSE IF t >= n THEN t - n
    ELSE 0

\* the truncating branch converting the end of the chunk instead of its start
ChunkBytes_tail(table, chunk, t) ==
    LET size == ConvertSize(t, Len(chunk))
    IN  as_bytes(convert_u8_slice(table, Drop(chunk, Len(chunk) - size), size))

\* the bytes handed to write_all for the chunk
ChunkBytes(table, chunk, t) ==
    as_bytes(convert_u8_slice(table, chunk, ConvertSize(t, Len(chunk))))

(***************************************************************************)
(* The state of one run of the program.                                    *)
(***************************************************************************)
VARIABLES
    args,        \* Args: mode, exclude (tokens), truncate
    files,       \* args.files with what the file system holds for each name
    stdin_data,  \* the bytes standard input delivers
    pc,          \* where main is: "start", "next", "process", "done"
    status,      \* how the run ended: "running", "ok", "exit1", "err", "exit141"
    exclude,     \* main: exclude, the [bool; 256]
    mapping,     \* AsciiMapping.mapping, <<>> before it is built
    truncate,    \* main: truncate
    idx,         \* the file argument main is at (0: no file arguments)
    pos,         \* bytes of the open file read so far
    stdin_pos,   \* bytes of standard input read so far
    out,         \* the bytes the standard output handle has taken
    stderr,      \* what was reported on standard error
    reads,       \* the read calls made so far, each by the source it was made on
    failure      \* the I/O failure that ended process, if any

vars == << args, files, stdin_data, pc, status, exclude, mapping, truncate,
           idx, pos, stdin_pos, out, stderr, reads, failure >>

NoFailure == [ op |-> "none", kind |-> "none" ]

\* a file argument: "-", a file that opens, or a name File::open fails on
IsStdin(f) == f.kind = "stdin"

FileEntries(contents) ==
    { [ kind |-> "stdin", data |-> <<>> ], [ kind |-> "missing", data |-> <<>> ] }
    \cup { [ kind |-> "file", data |-> d ] : d \in contents }

RECURSIVE TotalLen(_)
TotalLen(fs) == IF fs = <<>> THEN 0 ELSE Len(Head(fs).data) + TotalLen(Tail(fs))

\* standard input is read by a run without file arguments or with a "-"
ReadsStdin(fs) == fs = <<>> \/ \E j \in 1..Len(fs) : IsStdin(fs[j])

\* main, lines 94 and 108: the reader is io::stdin()
OnStdin == IF idx = 0 THEN TRUE ELSE IsStdin(files[idx])

\* the values of args.truncate that mean no limit
Unlimited == {-1, -2}

Init ==
    /\ files \in SeqsUpTo(FileEntries(SeqsUpTo(ByteSet, MaxLen)), MaxFiles)
    /\ TotalLen(files) <= MaxLen
    /\ stdin_data \in IF ReadsStdin(files)
                       THEN SeqsUpTo(ByteSet, MaxLen - TotalLen(files))
                       ELSE { <<>> }
    /\ args \in [ mode : Modes,
                  exclude : SeqsUpTo(TokenSet, MaxExclude) \ { <<>> },
                  truncate : Unlimited \cup 0..MaxBudget ]
    /\ pc = "start"
    /\ status = "running"
    /\ exclude = <<>>
    /\ mapping = <<>>
    /\ truncate = 0
    /\ idx = 0
    /\ pos = 0
    /\ stdin_pos = 0
    /\ out = <<>>
    /\ stderr = <<>>
    /\ reads = <<>>
    /\ failure = NoFailure

(***************************************************************************)
(* src/main.rs: main.                                                      *)
(***************************************************************************)
\* process::exit(code) and the return of main
Exit(st) ==
    /\ pc' = "done"
    /\ status' = st

\* main, lines 76-82: an exclusion token does not parse
ParseExcludeFail ==
    /\ pc = "start"
    /\ FirstBadToken(args.exclude) # 0
    /\ stderr' = Append(stderr, [ msg |-> "unparsable value",
                                  token |-> args.exclude[FirstBadToken(args.exclude)] ])
    /\ Exit("exit1")
    /\ UNCHANGED << args, files, stdin_data, exclude, mapping, truncate, idx,
                    pos, stdin_pos, out, reads, failure >>

\* main, lines 76-91: the exclusion list parses, the table is built
BuildMapping ==
    /\ pc = "start"
    /\ FirstBadToken(args.exclude) = 0
    /\ exclude' = ExcludeArray(args.exclude)
    /\ mapping' = AsciiMappingNew(args.mode, ExcludeArray(args.exclude))
    /\ truncate' = args.truncate
    /\ idx' = IF files = <<>> THEN 0 ELSE 1
    /\ pc' = "next"
    /\ UNCHANGED << args, files, stdin_data, status, pos, stdin_pos, out,
                    stderr, reads, failure >>

\* main, lines 96-98 and 104-106: early return if no more chars should be printed
EarlyReturn ==
    /\ pc = "next"
    /\ idx <= Len(files)
    /\ truncate = 0
    /\ Exit("ok")
    /\ UNCHANGED << args, files, stdin_data, exclude, mapping, truncate, idx,
                    pos, stdin_pos, out, stderr, reads, failure >>

\* main, lines 100 and 108-110: try_process on io::stdin()
StartStdin ==
    /\ pc = "next"
    /\ idx <= Len(files)
    /\ truncate # 0
    /\ OnStdin
    /\ pc' = "process"
    /\ UNCHANGED << args, files, stdin_data, status, exclude, mapping, truncate,
                    idx, pos, stdin_pos, out, stderr, reads, failure >>

\* the loop over the file arguments without its early return
OpenFile_unchecked ==
    /\ pc = "next"
    /\ idx \in 1..Len(files)
    /\ files[idx].kind = "file"
    /\ pos' = 0
    /\ pc' = "process"
    /\ UNCHANGED << args, files, stdin_data, status, exclude, mapping, truncate,
                    idx, stdin_pos, out, stderr, reads, failure >>

\* main, lines 113-115: File::open succeeds, try_process on the file
OpenFile ==
    /\ pc = "next"
    /\ idx \in 1..Len(files)
    /\ truncate # 0
    /\ files[idx].kind = "file"
    /\ pos' = 0
    /\ pc' = "process"
    /\ UNCHANGED << args, files, stdin_data, status, exclude, mapping, truncate,
                    idx, stdin_pos, out, stderr, reads, failure >>

\* main, lines 116-124: File::open fails
OpenFail ==
    /\ pc = "next"
    /\ idx \in 1..Len(files)
    /\ truncate # 0
    /\ files[idx].kind = "missing"
    /\ stderr' = Append(stderr, [ msg |-> "cannot open", file |-> idx ])
    /\ Exit("exit1")
    /\ UNCHANGED << args, files, stdin_data, exclude, mapping, truncate, idx,
                    pos, stdin_pos, out, reads, failure >>

\* main, line 129: all file arguments are done
MainReturn ==
    /\ pc = "next"
    /\ idx > Len(files)
    /\ Exit("ok")
    /\ UNCHANGED << args, files, stdin_data, exclude, mapping, truncate, idx,
                    pos, stdin_pos, out, stderr, reads, failure >>

(***************************************************************************)
(* src/main.rs: try_process and process, one iteration of the loop.        *)
(***************************************************************************)
\* the length of buf
BufSize == 16384

\* what the reader has not delivered yet
Unread ==
    IF OnStdin THEN Drop(stdin_data, stdin_pos) ELSE Drop(files[idx].data, pos)

\* the reader delivers n bytes
Advance(n) ==
    IF OnStdin THEN stdin_pos' = stdin_pos + n /\ pos' = pos
    ELSE pos' = pos + n /\ stdin_pos' = stdin_pos

\* try_process, lines 138-143: process returned Err(e)
TryProcessErr(op, kind) ==
    /\ failure' = [ op |-> op, kind |-> kind ]
    /\ Exit(IF kind = "BrokenPipe" THEN "exit141" ELSE "err")

\* process, line 159: reader.read fails
ReadErr ==
    /\ pc = "process"
    /\ reads' = Append(reads, idx)
    /\ \E kind \in ErrorKinds : TryProcessErr("read", kind)
    /\ UNCHANGED << args, files, stdin_data, exclude, mapping, truncate, idx,
                    pos, stdin_pos, out, stderr >>

\* a budget of its own for every source: *truncate starts over at the end of one
ReadEof_reset ==
    /\ pc = "process"
    /\ Unread = <<>>
    /\ reads' = Append(reads, idx)
    /\ idx' = idx + 1
    /\ truncate' = args.truncate
    /\ pc' = "next"
    /\ UNCHANGED << args, files, stdin_data, status, exclude, mapping,
                    pos, stdin_pos, out, stderr, failure >>

\* process, lines 159-162: no more input; try_process returns Ok and main
\* goes on to the next file argument
ReadEof ==
    /\ pc = "process"
    /\ Unread = <<>>
    /\ reads' = Append(reads, idx)
    /\ idx' = idx + 1
    /\ pc' = "next"
    /\ UNCHANGED << args, files, stdin_data, status, exclude, mapping, truncate,
                    pos, stdin_pos, out, stderr, failure >>

\* process, lines 159-181: n bytes are read, converted, written and flushed
ReadChunk ==
    /\ pc = "process"
    /\ \E n \in 1..Min(Len(Unread), BufSize) :
          /\ Advance(n)
          /\ out' = out \o ChunkBytes(mapping, Take(Unread, n), truncate)
          /\ truncate' = TruncateAfter(truncate, n)
    /\ reads' = Append(reads, idx)
    /\ UNCHANGED << args, files, stdin_data, pc, status, exclude, mapping, idx,
                    stderr, failure >>

\* process, lines 166, 169 and 174-178: write_all fails after the output
\* took delivered bytes of the chunk's text, before *truncate is updated
WriteErr ==
    /\ pc = "process"
    /\ \E n \in 1..Min(Len(Unread), BufSize) :
          LET data == ChunkBytes(mapping, Take(Unread, n), truncate)
          IN  /\ Advance(n)
              /\ \E delivered \in 0..(Len(data) - 1) :
                    out' = out \o Take(data, delivered)
    /\ reads' = Append(reads, idx)
    /\ \E kind \in ErrorKinds : TryProcessErr("write", kind)
    /\ UNCHANGED << args, files, stdin_data, exclude, mapping, truncate, idx,
                    stderr >>

\* process, line 181: flush fails, after write_all took the chunk's text and
\* *truncate is updated
FlushErr ==
    /\ pc = "process"
    /\ \E n \in 1..Min(Len(Unread), BufSize) :
          /\ Advance(n)
          /\ out' = out \o ChunkBytes(mapping, Take(Unread, n), truncate)
          /\ truncate' = TruncateAfter(truncate, n)
    /\ reads' = Append(reads, idx)
    /\ \E kind \in ErrorKinds : TryProcessErr("flush", kind)
    /\ UNCHANGED << args, files, stdin_data, exclude, mapping, idx, stderr >>

Next ==
    \/ ParseExcludeFail
    \/ BuildMapping
    \/ EarlyReturn
    \/ StartStdin
    \/ OpenFile
    \/ OpenFail
    \/ MainReturn
    \/ ReadErr
    \/ ReadEof
    \/ ReadChunk
    \/ WriteErr
    \/ FlushErr

Spec == Init /\ [][Next]_vars

TypeOK ==
    /\ pc \in {"start", "next", "process", "done"}
    /\ status \in {"running", "ok", "exit1", "err", "exit141"}
    /\ (status = "running") = (pc # "done")
    /\ truncate \in Int
    /\ \A j \in 1..Len(out) : out[j] \in U8

(***************************************************************************)
(* What the properties speak of.                                           *)
(***************************************************************************)
\* the bytes source j of the run holds (source 0: standard input of a run
\* without file arguments); standard input is one stream, so a second "-"
\* finds it at its end
SourceData(j) ==
    IF j = 0 THEN stdin_data
    ELSE IF IsStdin(files[j])
         THEN IF \E i \in 1..(j - 1) : IsStdin(files[i]) THEN <<>> ELSE stdin_data
         ELSE files[j].data

\* the sources of the run, in the caller's order
Sources ==
    IF files = <<>> THEN << SourceData(0) >>
    ELSE [ j \in 1..Len(files) |-> SourceData(j) ]

\* the input of the run: the bytes of its sources, in order
AllInput == Flatten(Sources)

\* the text the table gives for a byte sequence, as output bytes
Converted(bytes) == as_bytes(convert_u8_slice(mapping, bytes, Len(bytes)))

RECURSIVE SingleReads(_, _, _)
\* main and process over sources that each arrive in one single read: the
\* output and the budget at the end
SingleReads(srcs, t, acc) ==
    IF srcs = <<>> \/ t = 0 THEN << acc, t >>
    ELSE SingleReads(Tail(srcs),
                     TruncateAfter(t, Len(Head(srcs))),
                     acc \o ChunkBytes(mapping, Head(srcs), t))

\* the run has ended with exit status 0
Finished == status = "ok"

\* the table has been built
Built == mapping # <<>>

\* the printable range
Printable == 33..126

\* the value of a lower-case hex digit, -1 for another char
HexVal(ch) ==
    IF ch \in 48..57 THEN ch - 48
    ELSE IF ch \in 97..102 THEN ch - 87
    ELSE 0 - 1

\* str is the four chars \xNN with NN the lower-case hex of b
IsEscapeOf(str, b) ==
    /\ Len(str) = 4
    /\ str[1] = 92
    /\ str[2] = 120
    /\ HexVal(str[3]) >= 0
    /\ HexVal(str[4]) >= 0
    /\ 16 * HexVal(str[3]) + HexVal(str[4]) = b

(***************************************************************************)
(* C1  Truncation exactness.                                               *)
(***************************************************************************)
\* C1: a run with budget k >= 0 over an input of more than k bytes, however
\* the input is delivered in reads, ends with the output being the table
\* conversion of exactly the first k input bytes and with the budget at 0.
C1_TruncationExact ==
    (Finished /\ args.truncate >= 0 /\ Len(AllInput) > args.truncate)
        => /\ out = Converted(Take(AllInput, args.truncate))
           /\ truncate = 0

\* budget 2 on the input [255, 48, 48] in mnemonic mode, delivered in more
\* than one read, has given "(>7F)0"
C1_Witness ==
    /\ Finished
    /\ args.mode = "mnemonic"
    /\ args.exclude = << <<>> >>
    /\ args.truncate = 2
    /\ AllInput = << 255, 48, 48 >>
    /\ Len(reads) >= 3
    /\ out = << 40, 62, 55, 70, 41, 48 >>
    /\ truncate = 0

C3_NoReadAtZero ==
    [][ (reads' # reads) => (truncate # 0) ]_vars

(***************************************************************************)
(* C4  Chunk-invariance.                                                   *)
(***************************************************************************)
\* C4: whatever the split of the input into non-empty reads, a run that ends
\* has the output and the final budget of the run in which every source
\* arrives in one single read, for every budget, negative, zero or positive.
C4_ChunkInvariant ==
    Finished => << out, truncate >> = SingleReads(Sources, args.truncate, <<>>)

\* a source of three bytes has arrived in three reads of one byte, the
\* budget boundary on a chunk boundary
C4_Witness ==
    /\ Finished
    /\ Len(Sources) = 1
    /\ Len(AllInput) = 3
    /\ args.truncate = 2
    /\ Len(reads) = 4
    /\ out = Converted(Take(AllInput, 2))

(***************************************************************************)
(* C5  Cumulative budget across sources.                                   *)
(***************************************************************************)
\* C5: with sources A then B and one shared budget k >= 0, A is read before
\* B, B starts with the budget k minus the number of bytes of A, and if A
\* has at least k bytes B is never opened or read.
C5_SharedBudget ==
    (Len(files) >= 2 /\ args.truncate >= 0) =>
        /\ \A i, j \in 1..Len(reads) : (i < j) => (reads[i] <= reads[j])
        /\ (pc = "process" /\ idx = 2 /\ (\A i \in 1..Len(reads) : reads[i] # 2))
              => truncate = args.truncate - Len(SourceData(1))
        /\ (Len(SourceData(1)) >= args.truncate)
              => /\ ~(pc = "process" /\ idx = 2)
                 /\ \A i \in 1..Len(reads) : reads[i] # 2

\* B has been opened with what A left of the budget
C5_Witness ==
    /\ Len(files) = 2
    /\ args.truncate = 3
    /\ Len(SourceData(1)) = 2
    /\ pc = "process"
    /\ idx = 2
    /\ truncate = 1
    /\ reads = << 1, 1, 1 >>

(***************************************************************************)
(* C6  Excluded bytes are emitted verbatim.                                *)
(***************************************************************************)
\* C6: for every byte b of the exclusion set and every mode, the bytes
\* written to the output for one input byte b are exactly the byte b.
C6_ExcludedVerbatim ==
    Built => \A b \in U8 : exclude[b] => Converted(<< b >>) = << b >>

(***************************************************************************)
(* C7  I/O error surfacing.                                                *)
(***************************************************************************)
\* C7: every read failure, of any kind, and every write or flush failure
\* other than broken pipe ends the run with the I/O error returned to the
\* caller; only a broken pipe on the output ends it without an error.
C7_ErrorsSurfaced ==
    (failure # NoFailure) =>
        /\ pc = "done"
        /\ IF failure.op \in {"write", "flush"} /\ failure.kind = "BrokenPipe"
           THEN status = "exit141"
           ELSE status = "err"

(***************************************************************************)
(* C8  Source-boundary invariance.                                         *)
(***************************************************************************)
\* C8: a run over a list of sources ends with the output and the budget of
\* a run over the one source that holds their concatenation; with an
\* unlimited budget the output is the concatenation of the outputs of the
\* sources alone; and truncated at k it is the output for the first k bytes.
C8_SourceBoundaryInvariant ==
    Finished =>
        /\ << out, truncate >> = SingleReads(<< AllInput >>, args.truncate, <<>>)
        /\ (args.truncate < 0) =>
              out = Flatten([ j \in 1..Len(Sources) |-> Converted(Sources[j]) ])
        /\ (args.truncate \in 0..Len(AllInput)) =>
              out = SingleReads(<< Take(AllInput, args.truncate) >>,
                                args.truncate, <<>>)[1]

\* two sources that both hold bytes have been read, the budget running out
\* inside the second
C8_Witness ==
    /\ Finished
    /\ Len(files) = 2
    /\ Len(SourceData(1)) = 1
    /\ Len(SourceData(2)) = 2
    /\ args.truncate = 2
    /\ truncate = 0
    /\ out = Converted(Take(AllInput, 2))

(***************************************************************************)
(* C9  Unlimited budget.                                                   *)
(***************************************************************************)
\* C9: with a negative budget the budget keeps its value through every
\* chunk and to the end of the run, and a run that ends has converted every
\* byte of every source.
C9_Unlimited ==
    (Built /\ args.truncate < 0) =>
        /\ truncate = args.truncate
        /\ Finished => out = Converted(AllInput)

\* a run with budget -2 over two sources of three bytes altogether has ended
C9_Witness ==
    /\ Finished
    /\ args.truncate = 0 - 2
    /\ truncate = 0 - 2
    /\ Len(files) = 2
    /\ Len(SourceData(1)) >= 1
    /\ Len(AllInput) = 3
    /\ Len(out) >= 3

(***************************************************************************)
(* C10  Exclusion overrides mode.                                          *)
(***************************************************************************)
\* C10: the table entry of a non-printable byte of the exclusion set is the
\* single-character text of the byte and not the mode function's result;
\* the entry of a byte outside the exclusion set is the mode function's
\* result for that byte.
C10_ExclusionOverridesMode ==
    Built => \A b \in U8 :
                /\ (exclude[b] /\ b \notin Printable)
                      => /\ mapping[b] = << b >>
                         /\ mapping[b] # MapFn(args.mode, b)
                /\ ~exclude[b] => mapping[b] = MapFn(args.mode, b)

\* a mnemonic table that excludes byte 255
C10_Witness ==
    /\ Built
    /\ args.mode = "mnemonic"
    /\ exclude[255]
    /\ mapping[255] = << 255 >>
    /\ mapping[0] = << 40, 78, 85, 76, 41 >>

(***************************************************************************)
(* C11  Exclusion parse failure.                                           *)
(***************************************************************************)
\* bounds of the runs that vary the exclusion list
ArgsMaxTokens == 2
ArgsMaxLen == 1
ArgsMaxFiles == 1

\* the tokens of those runs, as their chars: "", "48", "+7", "256", "x", "-1"
ArgsTokenSet ==
    { <<>>, <<52, 56>>, <<43, 55>>, <<50, 53, 54>>, <<120>>, <<45, 49>> }

\* the runs that vary the exclusion list: all lists of one to ArgsMaxTokens
\* tokens, over small sources
InitArgs ==
    /\ files \in SeqsUpTo(FileEntries(SeqsUpTo(ByteSet, ArgsMaxLen)), ArgsMaxFiles)
    /\ TotalLen(files) <= ArgsMaxLen
    /\ stdin_data \in IF ReadsStdin(files)
                       THEN SeqsUpTo(ByteSet, ArgsMaxLen - TotalLen(files))
                       ELSE { <<>> }
    /\ args \in [ mode : Modes,
                  exclude : SeqsUpTo(ArgsTokenSet, ArgsMaxTokens) \ { <<>> },
                  truncate : {-1, 0, 1} ]
    /\ pc = "start"
    /\ status = "running"
    /\ exclude = <<>>
    /\ mapping = <<>>
    /\ truncate = 0
    /\ idx = 0
    /\ pos = 0
    /\ stdin_pos = 0
    /\ out = <<>>
    /\ stderr = <<>>
    /\ reads = <<>>
    /\ failure = NoFailure

SpecArgs == InitArgs /\ [][Next]_vars

\* the exclusion list is not the single empty token and holds a token that
\* str::parse::<u8> rejects
HasBadToken ==
    /\ ~(Len(args.exclude) = 1 /\ args.exclude[1] = <<>>)
    /\ \E j \in 1..Len(args.exclude) : ParseU8(args.exclude[j]) = ParseErr

\* the first token of the list that str::parse::<u8> rejects
FirstRejected ==
    LET j == CHOOSE j \in 1..Len(args.exclude) :
                 /\ ParseU8(args.exclude[j]) = ParseErr
                 /\ \A k \in 1..(j - 1) : ParseU8(args.exclude[k]) # ParseErr
    IN  args.exclude[j]

\* C11: when a token of the exclusion list does not parse as a byte value
\* (the list not being the single empty token), the run ends with exit
\* status 1 and the report of that token, the first of the list that does
\* not parse, without building a table, reading a source or writing output.
C11_ParseFailure ==
    (HasBadToken /\ pc # "start") =>
        /\ pc = "done"
        /\ status = "exit1"
        /\ stderr = << [ msg |-> "unparsable value", token |-> FirstRejected ] >>
        /\ exclude = <<>>
        /\ mapping = <<>>
        /\ reads = <<>>
        /\ out = <<>>
        /\ idx = 0

\* the list "48", "256" has ended the run with the report of "256"
C11_Witness ==
    /\ args.exclude = << <<52, 56>>, <<50, 53, 54>> >>
    /\ stdin_data # <<>>
    /\ status = "exit1"
    /\ stderr = << [ msg |-> "unparsable value", token |-> <<50, 53, 54>> ] >>
    /\ mapping = <<>>
    /\ out = <<>>

(***************************************************************************)
(* C12  Ordered, append-only output.                                       *)
(***************************************************************************)
\* process is, or was when the run ended, inside its loop on source idx
InProcess == pc = "process" \/ failure # NoFailure

\* the bytes read so far from source j: all of a source main is past, the
\* bytes delivered of the source process is on, none of a later one
ReadOf(j) ==
    IF j < idx THEN SourceData(j)
    ELSE IF j = idx /\ InProcess
         THEN IF OnStdin
              THEN IF SourceData(j) = <<>> THEN <<>> ELSE Take(stdin_data, stdin_pos)
              ELSE Take(files[j].data, pos)
         ELSE <<>>

\* the input bytes read so far: sources in caller order, bytes in read order
ReadSoFar ==
    IF files = <<>> THEN ReadOf(0)
    ELSE Flatten([ j \in 1..Len(files) |-> ReadOf(j) ])

\* s is an initial part of t
IsPrefix(s, t) == Len(s) <= Len(t) /\ s = Take(t, Len(s))

\* out is the table conversion of an initial part of the bytes read so far
ConvertsAPrefix ==
    \E n \in 0..Len(ReadSoFar) : out = Converted(Take(ReadSoFar, n))

\* C12 as stated: in every state, also after truncation and after an I/O
\* error, the output is the table conversion of a prefix of the input bytes
\* read so far, and every step only appends to the output.
C12_OrderedAppendOnly ==
    /\ [] ConvertsAPrefix
    /\ [][ IsPrefix(out, out') ]_vars

\* C12 as amended: in every state the output is an initial part of the
\* table conversion of the input bytes read so far, and every step only
\* appends to it; unless a write or flush failure has ended the run, the
\* output is the table conversion of a prefix of the bytes read so far.
C12_OrderedPrefix ==
    /\ [] ( /\ IsPrefix(out, Converted(ReadSoFar))
            /\ (failure.op \notin {"write", "flush"}) => ConvertsAPrefix )
    /\ [][ IsPrefix(out, out') ]_vars

\* a write failure in the second chunk has left the output inside the text
\* "(>7F)" of the second byte read
C12_Witness ==
    /\ failure.op = "write"
    /\ args.mode = "mnemonic"
    /\ args.exclude = << <<>> >>
    /\ ReadSoFar = << 48, 255 >>
    /\ Len(reads) = 2
    /\ out = << 48, 40, 62 >>

=============================================================================
